---- MODULE Spec2Model ----
(***************************************************************************)
(* Model of the live-weather-dashboard: the Express request gateway        *)
(* (src/server.js lines 1-179) and the browser client with its persisted   *)
(* search history (src/server.js lines 180-427).                           *)
(*                                                                         *)
(* Strings are sequences of one-character strings where the code works on  *)
(* their characters (trim, length, toLowerCase, encodeURIComponent), and   *)
(* sequences of text fragments where the code only searches them           *)
(* (error messages and upstream bodies).                                   *)
(***************************************************************************)
EXTENDS Integers, Sequences, FiniteSets, TLC

VARIABLES
  srv,          \* the gateway's handling of one request: request, promises, calls, responses
  storage,      \* localStorage item 'weatherHistory'
  historyEl,    \* #history-container: the rendered history buttons
  last,         \* the last History Store operation and how it ended
  added,        \* names added to the store since it was empty, oldest first
  nOps,         \* number of History Store operations performed
  lookups,      \* the client's lookups: fetchWeather / fetchWeatherByCoords calls
  ui            \* the client's DOM: error container, loader, forecast container, city name

vars == <<srv, storage, historyEl, last, added, nOps, lookups, ui>>

(***************************************************************************)
(* Bounds of the model.                                                    *)
(***************************************************************************)
MaxPad == 1        \* leading / trailing blanks put around a city name
MaxOps == 3        \* History Store operations per behaviour
MaxLookups == 3    \* client lookups per behaviour

(***************************************************************************)
(* Program constants.                                                      *)
(***************************************************************************)
MAX_CITY_LENGTH == 100
MAX_HISTORY_ITEMS == 10
FORECAST_INTERVAL == 8
LAT_MAX == 90
LON_MAX == 180
HTTP_OK == 200
HTTP_BAD_REQUEST == 400
HTTP_SERVER_ERROR == 500

(***************************************************************************)
(* Character strings.                                                      *)
(***************************************************************************)
Str(c) == <<c>>
Rep(c, n) == [i \in 1..n |-> c]
Range(s) == {s[i] : i \in DOMAIN s}

\* String.prototype.trim: strips white space at both ends
RECURSIVE TrimStart(_)
TrimStart(s) ==
  IF s = <<>> THEN s
  ELSE IF Head(s) = " " THEN TrimStart(Tail(s)) ELSE s

RECURSIVE TrimEnd(_)
TrimEnd(s) ==
  IF s = <<>> THEN s
  ELSE IF s[Len(s)] = " " THEN TrimEnd(SubSeq(s, 1, Len(s) - 1)) ELSE s

Trim(s) == TrimEnd(TrimStart(s))

\* String.prototype.toLowerCase, on the letters the model uses
LowerChar(c) ==
  CASE c = "A" -> "a"
    [] c = "B" -> "b"
    [] c = "C" -> "c"
    [] OTHER -> c

toLowerCase(s) == [i \in DOMAIN s |-> LowerChar(s[i])]

\* encodeURIComponent: letters are kept, a blank becomes %20
RECURSIVE encodeURIComponent(_)
encodeURIComponent(s) ==
  IF s = <<>> THEN <<>>
  ELSE (IF Head(s) = " " THEN <<"%", "2", "0">> ELSE <<Head(s)>>)
       \o encodeURIComponent(Tail(s))

(***************************************************************************)
(* Text that the code only searches: a sequence of fragments.              *)
(* message.toLowerCase() lowers each fragment; includes(x) finds x.        *)
(***************************************************************************)
LowerFragment(f) ==
  CASE f = "ENOTFOUND" -> "enotfound"
    [] f = "ECONNREFUSED" -> "econnrefused"
    [] f = "Request" -> "request"
    [] f = "Weather API returned status" -> "weather api returned status"
    [] f = "Invalid JSON response from weather API" -> "invalid json response from weather api"
    [] f = "Not Found" -> "not found"
    [] f = "Unauthorized" -> "unauthorized"
    [] f = "Cannot read properties of null (reading 'name')" -> "cannot read properties of null (reading 'name')"
    [] f = "City not found. Please check the spelling." -> "city not found. please check the spelling."
    [] f = "Failed to fetch" -> "failed to fetch"
    [] OTHER -> f

LowerMessage(m) == [i \in DOMAIN m |-> LowerFragment(m[i])]

\* The fragments that hold a searched word inside them
Holds ==
  {<<"city not found. please check the spelling.", "not found">>,
   <<"failed to fetch", "fetch">>}

includes(m, x) == \E f \in Range(m) : f = x \/ <<f, x>> \in Holds

(***************************************************************************)
(* JSON values and upstream replies.                                       *)
(***************************************************************************)
\* JSON values the upstream can send: null, a current-conditions object, a
\* forecast object whose list has k samples, or an object with no such fields
JNull == [kind |-> "null", name |-> <<>>, list |-> <<>>]
JObject == [kind |-> "object", name |-> <<>>, list |-> <<>>]
Current(n) == [kind |-> "current", name |-> n, list |-> <<>>]
Forecast(n, k) == [kind |-> "forecast", name |-> n, list |-> [i \in 1..k |-> i]]

\* A response body: its text, and the value it encodes when it is well-formed JSON
JsonBody(v, t) == [wf |-> TRUE, json |-> v, text |-> t]
RawBody(t) == [wf |-> FALSE, json |-> JNull, text |-> t]

\* What can happen to one https.get: the response ends, the request errors, or it times out
End(status, body) == [type |-> "end", status |-> status, body |-> body, message |-> <<>>]
ErrorEvent(m) == [type |-> "error", status |-> 0, body |-> RawBody(<<>>), message |-> m]
TimeoutEvent == [type |-> "timeout", status |-> 0, body |-> RawBody(<<>>), message |-> <<>>]

StatusText(code) ==
  CASE code = 200 -> "200"
    [] code = 401 -> "401"
    [] code = 404 -> "404"
    [] code = 500 -> "500"
    [] OTHER -> "0"

\* Promises
NoPromise == [st |-> "none", val |-> JNull, err |-> <<>>]
Pending == [st |-> "pending", val |-> JNull, err |-> <<>>]
Fulfilled(v) == [st |-> "fulfilled", val |-> v, err |-> <<>>]
Rejected(m) == [st |-> "rejected", val |-> JNull, err |-> m]

\* makeRequest: the promise settles on the first of the three events
makeRequest(ev) ==
  CASE ev.type = "end" ->
         IF ev.status = HTTP_OK
         THEN IF ev.body.wf
              THEN Fulfilled(ev.body.json)
              ELSE Rejected(<<"Invalid JSON response from weather API">>)
         ELSE Rejected(<<"Weather API returned status", StatusText(ev.status)>>
                       \o ev.body.text)
    [] ev.type = "error" -> Rejected(ev.message)
    [] OTHER -> Rejected(<<"Request", "timeout",
                           "- weather service took too long to respond">>)

(***************************************************************************)
(* The gateway's error translation.                                        *)
(***************************************************************************)
CityNotFound == <<"City not found. Please check the spelling.">>
AuthFailed == <<"Weather service authentication failed.">>
TimedOut == <<"Weather service request timed out. Please try again.">>
Unreachable == <<"Unable to connect to weather service.">>
Unavailable == <<"Weather service temporarily unavailable. Please try again.">>

\* Mutant of getErrorMessage: an unclassified error's own text is returned
getErrorMessageRaw(error) ==
  LET message == LowerMessage(error)
  IN IF includes(message, "404") \/ includes(message, "not found") THEN CityNotFound
     ELSE IF includes(message, "401") \/ includes(message, "unauthorized") THEN AuthFailed
     ELSE IF includes(message, "timeout") THEN TimedOut
     ELSE IF includes(message, "network") \/ includes(message, "enotfound") THEN Unreachable
     ELSE error

getErrorMessage(error) ==
  LET message == LowerMessage(error)
  IN IF includes(message, "404") \/ includes(message, "not found") THEN CityNotFound
     ELSE IF includes(message, "401") \/ includes(message, "unauthorized") THEN AuthFailed
     ELSE IF includes(message, "timeout") THEN TimedOut
     ELSE IF includes(message, "network") \/ includes(message, "enotfound") THEN Unreachable
     ELSE Unavailable

(***************************************************************************)
(* Requests, query parameters and the router.                              *)
(***************************************************************************)
\* A query parameter as Express hands it over: undefined, or a string, which
\* parseFloat reads as a number or as NaN
Undefined == [present |-> FALSE, empty |-> TRUE, nan |-> TRUE, val |-> 0]
EmptyParam == [present |-> TRUE, empty |-> TRUE, nan |-> TRUE, val |-> 0]
WordParam == [present |-> TRUE, empty |-> FALSE, nan |-> TRUE, val |-> 0]
NumParam(n) == [present |-> TRUE, empty |-> FALSE, nan |-> FALSE, val |-> n]

Falsy(p) == ~p.present \/ p.empty

\* GET /api/weather/<seg>?lat=<lat>&lon=<lon>, seg already percent-decoded
Request(seg, lat, lon) == [seg |-> seg, lat |-> lat, lon |-> lon]
NoRequest == Request(<<>>, Undefined, Undefined)

CoordsSeg == <<"c", "o", "o", "r", "d", "s">>

isValidCoordinate(lat, lon) ==
  /\ ~lat.nan /\ ~lon.nan
  /\ lat.val >= -LAT_MAX /\ lat.val <= LAT_MAX
  /\ lon.val >= -LON_MAX /\ lon.val <= LON_MAX

\* The URLs of the two upstream calls
CityUrl(endpoint, q) ==
  [endpoint |-> endpoint, by |-> "q", q |-> q, lat |-> Undefined, lon |-> Undefined]
CoordsUrl(endpoint, lat, lon) ==
  [endpoint |-> endpoint, by |-> "latlon", q |-> <<>>, lat |-> lat, lon |-> lon]

\* A response of the gateway
ErrorResponse(status, text) ==
  [status |-> status, error |-> text, data |-> FALSE,
   currentWeather |-> JNull, forecast |-> JNull]
BundleResponse(cur, fc) ==
  [status |-> HTTP_OK, error |-> <<>>, data |-> TRUE,
   currentWeather |-> cur, forecast |-> fc]

\* The handling of one request
Idle ==
  [phase |-> "idle", route |-> "none", req |-> NoRequest,
   current |-> NoPromise, forecast |-> NoPromise,
   calls |-> <<>>, res |-> <<>>, log |-> <<>>]

\* return res.status(400).json({ error })
Refuse(route, req, text) ==
  [Idle EXCEPT !.phase = "answered", !.route = route, !.req = req,
               !.res = <<ErrorResponse(HTTP_BAD_REQUEST, text)>>]

\* await Promise.all([makeRequest(currentWeatherUrl), makeRequest(forecastUrl)])
AwaitBoth(route, req, currentWeatherUrl, forecastUrl) ==
  [Idle EXCEPT !.phase = "awaiting", !.route = route, !.req = req,
               !.current = Pending, !.forecast = Pending,
               !.calls = <<currentWeatherUrl, forecastUrl>>]

\* Mutant of CityHandler: the length limit is applied to the untrimmed name
CityHandlerUntrimmed(req) ==
  LET city == req.seg
  IN IF city = <<>> \/ Len(Trim(city)) = 0
     THEN Refuse("city", req, <<"City name is required and cannot be empty.">>)
     ELSE LET sanitizedCity == Trim(city)
          IN IF Len(city) > MAX_CITY_LENGTH
             THEN Refuse("city", req, <<"City name is too long.">>)
             ELSE AwaitBoth("city", req,
                            CityUrl("weather", encodeURIComponent(sanitizedCity)),
                            CityUrl("forecast", encodeURIComponent(sanitizedCity)))

\* app.get('/api/weather/:city'), up to the await
CityHandler(req) ==
  LET city == req.seg
  IN IF city = <<>> \/ Len(Trim(city)) = 0
     THEN Refuse("city", req, <<"City name is required and cannot be empty.">>)
     ELSE LET sanitizedCity == Trim(city)
          IN IF Len(sanitizedCity) > MAX_CITY_LENGTH
             THEN Refuse("city", req, <<"City name is too long.">>)
             ELSE AwaitBoth("city", req,
                            CityUrl("weather", encodeURIComponent(sanitizedCity)),
                            CityUrl("forecast", encodeURIComponent(sanitizedCity)))

\* app.get('/api/weather/coords'), up to the await
CoordsHandler(req) ==
  IF Falsy(req.lat) \/ Falsy(req.lon)
  THEN Refuse("coords", req, <<"Latitude and longitude are required.">>)
  ELSE IF ~isValidCoordinate(req.lat, req.lon)
  THEN Refuse("coords", req,
              <<"Invalid coordinates. Latitude must be -90 to 90, longitude must be -180 to 180.">>)
  ELSE AwaitBoth("coords", req,
                 CoordsUrl("weather", req.lat, req.lon),
                 CoordsUrl("forecast", req.lat, req.lon))

\* Express tries the routes in the order app.get registered them and runs the
\* first whose path matches; neither handler passes the request on.
\* '/api/weather/:city' matches any one non-empty segment,
\* '/api/weather/coords' the segment "coords".
Routes == <<"city", "coords">>

Matches(route, req) ==
  IF route = "city" THEN Len(req.seg) >= 1 /\ "/" \notin Range(req.seg)
  ELSE req.seg = CoordsSeg

Routed(req) == \E i \in DOMAIN Routes : Matches(Routes[i], req)

Dispatch(req) ==
  LET first == CHOOSE i \in DOMAIN Routes :
                 /\ Matches(Routes[i], req)
                 /\ \A j \in 1..(i - 1) : ~Matches(Routes[j], req)
  IN IF Routes[first] = "city" THEN CityHandler(req) ELSE CoordsHandler(req)

\* Mutant of Catch: the two upstream calls are issued again after a failure
CatchAndRetry(h, error) ==
  [h EXCEPT !.phase = "answered",
            !.log = Append(@, error),
            !.calls = @ \o @,
            !.res = Append(@, ErrorResponse(HTTP_SERVER_ERROR, getErrorMessage(error)))]

\* catch (error): console.error(error.message); res.status(500).json(...)
Catch(h, error) ==
  [h EXCEPT !.phase = "answered",
            !.log = Append(@, error),
            !.res = Append(@, ErrorResponse(HTTP_SERVER_ERROR, getErrorMessage(error)))]

\* The statements after the await: console.log(currentWeather.name) throws a
\* TypeError when currentWeather is null; then res.json({ currentWeather, forecast })
AfterAwait(h) ==
  IF h.current.val.kind = "null"
  THEN Catch(h, <<"Cannot read properties of null (reading 'name')">>)
  ELSE [h EXCEPT !.phase = "answered",
                 !.res = Append(@, BundleResponse(h.current.val, h.forecast.val))]

\* One of the two makeRequest promises settles. Promise.all rejects with the
\* first rejection and fulfils when both have fulfilled; once it has settled,
\* the sibling's outcome is dropped.
Settle(h, which, ev) ==
  LET p == makeRequest(ev)
      h1 == [h EXCEPT ![which] = p]
  IN IF h.phase # "awaiting" THEN h1
     ELSE IF p.st = "rejected" THEN Catch(h1, p.err)
     ELSE IF h1.current.st = "fulfilled" /\ h1.forecast.st = "fulfilled"
     THEN AfterAwait(h1)
     ELSE h1

(***************************************************************************)
(* The History Store: localStorage item 'weatherHistory' and the three     *)
(* functions that read and write it.                                       *)
(***************************************************************************)
\* The stored item: absent (getItem gives null), or a string, which is the
\* empty string, text that is not JSON, or the JSON text of an array of
\* strings, of a string (items: its characters), of null, a number or an object
Blob(kind, items) == [kind |-> kind, items |-> items]
Absent == Blob("absent", <<>>)
ArrayText(items) == Blob("array", items)

\* JSON.stringify(history)
stringify(history) == ArrayText(history)

\* localStorage.getItem('weatherHistory') || '[]'
getItemOrDefault(item) ==
  IF item.kind \in {"absent", "empty"} THEN ArrayText(<<>>) ELSE item

\* JSON.parse throws a SyntaxError on text that is not JSON
parseThrows(text) == text.kind = "garbage"
\* for (const city of history): arrays and strings iterate, the rest throws a TypeError
iterable(value) == value.kind \in {"array", "string"}
\* history.filter exists on arrays only
hasFilter(value) == value.kind = "array"

\* Mutant helper: the comparison without toLowerCase
RECURSIVE filterExact(_, _)
filterExact(history, city) ==
  IF history = <<>> THEN <<>>
  ELSE (IF Head(history) # city THEN <<Head(history)>> ELSE <<>>)
       \o filterExact(Tail(history), city)

\* history.filter(c => c.toLowerCase() !== city.toLowerCase())
RECURSIVE filterOut(_, _)
filterOut(history, city) ==
  IF history = <<>> THEN <<>>
  ELSE (IF toLowerCase(Head(history)) # toLowerCase(city) THEN <<Head(history)>> ELSE <<>>)
       \o filterOut(Tail(history), city)

\* The outcome of a store function: the item, the rendered container,
\* whether an exception left the function, whether alert() was shown
Outcome(item, el, threw, alerted) ==
  [storage |-> item, el |-> el, threw |-> threw, alerted |-> alerted]

renderHistory(item, el) ==
  LET text == getItemOrDefault(item)
  IN IF parseThrows(text) THEN Outcome(item, el, TRUE, FALSE)
     ELSE \* historyContainerEl.innerHTML = '' comes before the loop
          IF iterable(text) THEN Outcome(item, text.items, FALSE, FALSE)
          ELSE Outcome(item, <<>>, TRUE, FALSE)

\* Mutant of saveCityToHistory: duplicates are found by exact comparison
saveCityToHistoryExact(city, item, el) ==
  LET historyString == getItemOrDefault(item)
  IN IF parseThrows(historyString) \/ ~hasFilter(historyString)
     THEN Outcome(item, el, TRUE, FALSE)
     ELSE LET unshifted == <<city>> \o filterExact(historyString.items, city)
              history == IF Len(unshifted) > MAX_HISTORY_ITEMS
                         THEN SubSeq(unshifted, 1, MAX_HISTORY_ITEMS)
                         ELSE unshifted
          IN renderHistory(stringify(history), el)

\* Mutant of saveCityToHistory: the list is cut one entry too late
saveCityToHistoryLate(city, item, el) ==
  LET historyString == getItemOrDefault(item)
  IN IF parseThrows(historyString) \/ ~hasFilter(historyString)
     THEN Outcome(item, el, TRUE, FALSE)
     ELSE LET unshifted == <<city>> \o filterOut(historyString.items, city)
              history == IF Len(unshifted) > MAX_HISTORY_ITEMS + 1
                         THEN SubSeq(unshifted, 1, MAX_HISTORY_ITEMS)
                         ELSE unshifted
          IN renderHistory(stringify(history), el)

saveCityToHistory(city, item, el) ==
  LET historyString == getItemOrDefault(item)
  IN IF parseThrows(historyString) \/ ~hasFilter(historyString)
     THEN Outcome(item, el, TRUE, FALSE)
     ELSE LET unshifted == <<city>> \o filterOut(historyString.items, city)
              history == IF Len(unshifted) > MAX_HISTORY_ITEMS
                         THEN SubSeq(unshifted, 1, MAX_HISTORY_ITEMS)
                         ELSE unshifted
          IN renderHistory(stringify(history), el)

\* Mutant of deleteCity: the city is found by exact comparison
deleteCityExact(cityName, item, el) ==
  LET historyString == getItemOrDefault(item)
  IN IF parseThrows(historyString) \/ ~hasFilter(historyString)
     THEN Outcome(item, el, FALSE, TRUE)
     ELSE LET history == filterExact(historyString.items, cityName)
              r == renderHistory(stringify(history), el)
          IN Outcome(r.storage, r.el, FALSE, r.threw)

\* deleteCity: whatever is thrown inside is caught and answered with alert()
deleteCity(cityName, item, el) ==
  LET historyString == getItemOrDefault(item)
  IN IF parseThrows(historyString) \/ ~hasFilter(historyString)
     THEN Outcome(item, el, FALSE, TRUE)
     ELSE LET history == filterOut(historyString.items, cityName)
              r == renderHistory(stringify(history), el)
          IN Outcome(r.storage, r.el, FALSE, r.threw)

(***************************************************************************)
(* The page's elements.                                                    *)
(***************************************************************************)
\* The DOM: #error-container, #loader, #forecast-container, #city-name
Dom(errorHidden, errorText, loaderHidden, cards, city) ==
  [errorHidden |-> errorHidden, errorText |-> errorText,
   loaderHidden |-> loaderHidden, cards |-> cards, city |-> city]

NoCity == [lookup |-> 0, name |-> <<>>]
InitialDom == Dom(TRUE, <<>>, TRUE, <<>>, NoCity)

(***************************************************************************)
(* The History Store as a state machine.                                   *)
(***************************************************************************)
NamePool ==
  <<Str("a"), Str("b"), Str("c"), Str("d"), Str("e"), Str("f"),
    Str("g"), Str("h"), Str("i"), Str("j"), Str("k"), Str("l")>>

\* The store after the first k names of the pool were added to an empty store
RECURSIVE Filled(_)
Filled(k) ==
  IF k = 0 THEN Absent
  ELSE saveCityToHistory(NamePool[k], Filled(k - 1), <<>>).storage

FilledSizes == {0, 1, 2, 9, 10, 11}

\* Items this program did not write
ForeignItems ==
  {Blob("empty", <<>>), Blob("garbage", <<>>), Blob("object", <<>>),
   Blob("null", <<>>), Blob("number", <<>>),
   Blob("string", <<Str("a"), Str("b")>>),
   ArrayText(<<Str("a"), Str("A"), Str("b")>>)}

\* Names handed to add and remove
OpNames == {Str("a"), Str("A"), Str("k"), Str("m"), <<"a", "b">>}

NoOp == [op |-> "none", arg |-> <<>>, before |-> Absent, threw |-> FALSE, alerted |-> FALSE]
Did(op, arg, before, r) ==
  [op |-> op, arg |-> arg, before |-> before, threw |-> r.threw, alerted |-> r.alerted]

\* The page loads: renderHistory()
PageLoad ==
  /\ nOps < MaxOps
  /\ LET r == renderHistory(storage, historyEl)
     IN /\ storage' = r.storage
        /\ historyEl' = r.el
        /\ last' = Did("render", <<>>, storage, r)
  /\ nOps' = nOps + 1
  /\ UNCHANGED <<srv, added, lookups, ui>>

\* add(name): saveCityToHistory(name)
Add ==
  /\ nOps < MaxOps
  /\ \E city \in OpNames :
       LET r == saveCityToHistory(city, storage, historyEl)
       IN /\ storage' = r.storage
          /\ historyEl' = r.el
          /\ last' = Did("add", city, storage, r)
          /\ added' = IF r.threw THEN added
                      ELSE [added EXCEPT !.names = Append(@, city)]
  /\ nOps' = nOps + 1
  /\ UNCHANGED <<srv, lookups, ui>>

\* remove(name): deleteCity(name)
Remove ==
  /\ nOps < MaxOps
  /\ \E cityName \in OpNames :
       LET r == deleteCity(cityName, storage, historyEl)
       IN /\ storage' = r.storage
          /\ historyEl' = r.el
          /\ last' = Did("remove", cityName, storage, r)
          /\ added' = IF r.alerted THEN added
                      ELSE [added EXCEPT !.onlyAdds = FALSE]
  /\ nOps' = nOps + 1
  /\ UNCHANGED <<srv, lookups, ui>>

HistoryInit ==
  /\ \/ \E k \in FilledSizes :
          /\ storage = Filled(k)
          /\ added = [names |-> SubSeq(NamePool, 1, k), fromEmpty |-> TRUE, onlyAdds |-> TRUE]
     \/ \E item \in ForeignItems :
          /\ storage = item
          /\ added = [names |-> <<>>, fromEmpty |-> FALSE, onlyAdds |-> FALSE]
  /\ historyEl = <<>>
  /\ last = NoOp
  /\ nOps = 0
  /\ srv = Idle /\ lookups = <<>> /\ ui = InitialDom

HistoryNext == PageLoad \/ Add \/ Remove

SpecHistory == HistoryInit /\ [][HistoryNext]_vars

(***************************************************************************)
(* The gateway as a state machine: a request arrives, and each of its two  *)
(* upstream calls ends in one of the events of makeRequest.                *)
(***************************************************************************)
Places == {Str("a"), Str("B")}

NameCores ==
  {<<>>, Str("a"), <<"a", " ", "b">>, CoordsSeg,
   Rep("x", MAX_CITY_LENGTH - 1), Rep("x", MAX_CITY_LENGTH), Rep("x", MAX_CITY_LENGTH + 1)}

Segments ==
  {Rep(" ", l) \o c \o Rep(" ", t) : l \in 0..MaxPad, t \in 0..MaxPad, c \in NameCores}

LatParams == {Undefined, WordParam, NumParam(-91), NumParam(-90), NumParam(90), NumParam(200)}
LonParams == {EmptyParam, NumParam(-181), NumParam(10), NumParam(180), NumParam(181)}

Requests ==
  {Request(s, Undefined, Undefined) : s \in Segments}
  \cup {Request(CoordsSeg, lat, lon) : lat \in LatParams, lon \in LonParams}

\* What the upstream can do to a call of the given endpoint
Payloads(endpoint, lens) ==
  IF endpoint = "weather" THEN {Current(n) : n \in Places} \cup {JNull}
  ELSE {Forecast(n, k) : n \in Places, k \in lens} \cup {JNull}

UpstreamEvents(endpoint, lens) ==
  {End(200, JsonBody(v, <<>>)) : v \in Payloads(endpoint, lens)}
  \cup {End(200, RawBody(<<"<html>">>)),
        End(404, JsonBody(JObject, <<"404", "city", "not found">>)),
        End(401, JsonBody(JObject, <<"401", "Invalid API key">>)),
        End(500, RawBody(<<"upstream", "timeout">>)),
        End(500, RawBody(<<>>)),
        ErrorEvent(<<"getaddrinfo", "ENOTFOUND", "api.openweathermap.org">>),
        ErrorEvent(<<"connect", "ECONNREFUSED">>),
        TimeoutEvent}

GatewayLens == {1}

Settled(h) == h.current.st # "pending" /\ h.forecast.st # "pending"

Receive ==
  /\ srv.phase = "idle"
  /\ \E req \in Requests :
       /\ Routed(req)
       /\ srv' = Dispatch(req)
  /\ UNCHANGED <<storage, historyEl, last, added, nOps, lookups, ui>>

SettleCurrent ==
  /\ srv.current.st = "pending"
  /\ \E ev \in UpstreamEvents("weather", GatewayLens) :
       srv' = Settle(srv, "current", ev)
  /\ UNCHANGED <<storage, historyEl, last, added, nOps, lookups, ui>>

SettleForecast ==
  /\ srv.forecast.st = "pending"
  /\ \E ev \in UpstreamEvents("forecast", GatewayLens) :
       srv' = Settle(srv, "forecast", ev)
  /\ UNCHANGED <<storage, historyEl, last, added, nOps, lookups, ui>>

\* The response is sent and both promises have settled: the handling is over
Release ==
  /\ srv.phase = "answered" /\ Settled(srv)
  /\ srv' = Idle
  /\ UNCHANGED <<storage, historyEl, last, added, nOps, lookups, ui>>

GatewayInit ==
  /\ srv = Idle
  /\ storage = Absent /\ historyEl = <<>> /\ last = NoOp /\ nOps = 0
  /\ added = [names |-> <<>>, fromEmpty |-> TRUE, onlyAdds |-> TRUE]
  /\ lookups = <<>> /\ ui = InitialDom

GatewayNext == Receive \/ SettleCurrent \/ SettleForecast \/ Release

SpecGateway == GatewayInit /\ [][GatewayNext]_vars

(***************************************************************************)
(* Claims about the gateway (checked under SpecGateway).                   *)
(***************************************************************************)
\* The length of a name once the blanks at both ends are dropped, counted
\* from the positions of its first and last non-blank character
TrimmedLength(s) ==
  IF \A i \in DOMAIN s : s[i] = " " THEN 0
  ELSE LET first == CHOOSE i \in DOMAIN s :
                      s[i] # " " /\ \A j \in 1..(i - 1) : s[j] = " "
           final == CHOOSE i \in DOMAIN s :
                      s[i] # " " /\ \A j \in (i + 1)..Len(s) : s[j] = " "
       IN final - first + 1

NameIsValid(s) == TrimmedLength(s) >= 1 /\ TrimmedLength(s) <= 100

CoordsOutOfRange(req) ==
  /\ req.seg = CoordsSeg
  /\ ~Falsy(req.lat) /\ ~req.lat.nan
  /\ ~Falsy(req.lon) /\ ~req.lon.nan
  /\ \/ req.lat.val < -90 \/ req.lat.val > 90
     \/ req.lon.val < -180 \/ req.lon.val > 180

RefusedWith400 ==
  /\ srv.phase = "answered"
  /\ Len(srv.res) = 1
  /\ srv.res[1].status = 400
  /\ ~srv.res[1].data
  /\ srv.calls = <<>>

\* C1: GET /api/weather/coords?lat=L&lon=N with L outside [-90,90] or N outside
\* [-180,180] is answered 400 and no upstream call is issued for it.
C1_OutOfRangeCoordsRefused ==
  (srv.phase # "idle" /\ CoordsOutOfRange(srv.req)) => RefusedWith400

\* C2: a city name whose trimmed length is 0 or above 100 is answered 400 with
\* no upstream call; a name of trimmed length 1..100 passes validation (the two
\* upstream calls are issued and no 400 is sent).
C2_NameValidation ==
  srv.phase # "idle" =>
    IF NameIsValid(srv.req.seg)
    THEN /\ Len(srv.calls) = 2
         /\ \A i \in DOMAIN srv.res : srv.res[i].status # 400
    ELSE RefusedWith400

C2_Witness ==
  /\ RefusedWith400
  /\ TrimmedLength(srv.req.seg) = 101
  /\ Len(srv.req.seg) > 101

\* C3: a lookup that passed validation is answered 200 with the two upstream
\* payloads unmodified if and only if both upstream calls succeeded; otherwise
\* the response carries no weather data.
C3_BundleIffBothSucceeded ==
  (srv.phase = "answered" /\ srv.calls # <<>>) =>
    LET r == srv.res[1]
        both == srv.current.st = "fulfilled" /\ srv.forecast.st = "fulfilled"
    IN /\ Len(srv.res) = 1
       /\ both <=> (r.status = 200 /\ r.data)
       /\ r.data => (r.currentWeather = srv.current.val /\ r.forecast = srv.forecast.val)
       /\ ~both => (~r.data /\ r.status # 200)

\* The part of C3 that the code keeps: never a partial bundle. A response
\* with weather data carries both payloads as the upstream sent them, and a
\* rejection of either call is answered without data, whatever the sibling's state.
NoPartialBundle ==
  \A i \in DOMAIN srv.res :
    LET r == srv.res[i]
    IN IF r.data
       THEN /\ r.status = 200
            /\ srv.current = Fulfilled(r.currentWeather)
            /\ srv.forecast = Fulfilled(r.forecast)
       ELSE r.status # 200 /\ r.currentWeather = JNull /\ r.forecast = JNull

UserMessages ==
  {<<"City name is required and cannot be empty.">>,
   <<"City name is too long.">>,
   <<"Latitude and longitude are required.">>,
   <<"Invalid coordinates. Latitude must be -90 to 90, longitude must be -180 to 180.">>,
   <<"City not found. Please check the spelling.">>,
   <<"Weather service authentication failed.">>,
   <<"Weather service request timed out. Please try again.">>,
   <<"Unable to connect to weather service.">>,
   <<"Weather service temporarily unavailable. Please try again.">>}

TimeoutMessage == <<"Request", "timeout", "- weather service took too long to respond">>

FailureKind(error) ==
  IF error = TimeoutMessage THEN "timeout"
  ELSE IF error = <<"Invalid JSON response from weather API">> THEN "malformed"
  ELSE IF Len(error) >= 2 /\ error[1] = "Weather API returned status"
  THEN (IF error[2] = "404" THEN "status404"
        ELSE IF error[2] = "401" THEN "status401"
        ELSE "status")
  ELSE IF error = <<"getaddrinfo", "ENOTFOUND", "api.openweathermap.org">> THEN "dns"
  ELSE IF error = <<"connect", "ECONNREFUSED">> THEN "refused"
  ELSE "other"

CategoryOf(kind) ==
  CASE kind = "timeout" -> <<"Weather service request timed out. Please try again.">>
    [] kind = "status404" -> <<"City not found. Please check the spelling.">>
    [] kind = "status401" -> <<"Weather service authentication failed.">>
    [] kind \in {"dns", "refused"} -> <<"Unable to connect to weather service.">>
    [] OTHER -> <<"Weather service temporarily unavailable. Please try again.">>

\* C11: the category of a failed lookup follows from the failure kind alone:
\* timeout -> timed-out, status 404 -> not-found, status 401 ->
\* authentication-failed, DNS failure or connection refused -> unreachable,
\* malformed payload or any other status -> generic; the text of the upstream
\* body does not change it.
C11_CategoryByKindAlone ==
  (srv.phase = "answered" /\ Len(srv.log) = 1) =>
    srv.res[1].error = CategoryOf(FailureKind(srv.log[1]))

\* What C11 says does hold of the failures whose message carries no upstream
\* text and of the statuses 404 and 401, and of a DNS failure
CategoryWithoutBodyText ==
  (srv.phase = "answered" /\ Len(srv.log) = 1
     /\ FailureKind(srv.log[1]) \in {"timeout", "malformed", "status404", "status401", "dns", "other"}) =>
    srv.res[1].error = CategoryOf(FailureKind(srv.log[1]))

(***************************************************************************)
(* Claims about the History Store (checked under SpecHistory).             *)
(***************************************************************************)
\* Two names are equal case-insensitively
SameLetter(c, d) ==
  c = d \/ {c, d} \in {{"a", "A"}, {"b", "B"}, {"c", "C"}}

SameName(x, y) ==
  Len(x) = Len(y) /\ \A i \in DOMAIN x : SameLetter(x[i], y[i])

StoredList(item) == IF item.kind = "array" THEN item.items ELSE <<>>

WellFormedOrAbsent(item) == item.kind \in {"array", "absent"}

FirstTen(s) == IF Len(s) > 10 THEN SubSeq(s, 1, 10) ELSE s

Without(L, x) == SelectSeq(L, LAMBDA e : ~SameName(e, x))

\* C4: when the persisted item is absent or is not a well-formed JSON list,
\* no store operation lets an error out: list() shows the empty sequence and
\* add / remove act as on an empty list.
C4_MalformedTreatedAsEmpty ==
  (last.op # "none" /\ last.before.kind # "array") =>
    /\ ~last.threw
    /\ ~last.alerted
    /\ last.op = "render" => historyEl = <<>>
    /\ last.op = "add" => (storage = ArrayText(<<last.arg>>) /\ historyEl = <<last.arg>>)
    /\ last.op = "remove" => (StoredList(storage) = <<>> /\ historyEl = <<>>)

\* What C4 says of an absent item does hold
AbsentTreatedAsEmpty ==
  (last.op # "none" /\ last.before.kind \in {"absent", "empty"}) =>
    /\ ~last.threw
    /\ ~last.alerted
    /\ last.op = "render" => historyEl = <<>>
    /\ last.op = "add" => (storage = ArrayText(<<last.arg>>) /\ historyEl = <<last.arg>>)
    /\ last.op = "remove" => (StoredList(storage) = <<>> /\ historyEl = <<>>)

\* C5: add(name) on a stored list L yields name followed by the entries of L
\* that differ from name case-insensitively, in their order, cut to 10; so
\* exactly one entry equals name case-insensitively, it is first and has
\* name's casing, and adding a name equal to the front entry does not grow the list.
C5_AddMovesToFront ==
  (last.op = "add" /\ WellFormedOrAbsent(last.before)) =>
    LET L == StoredList(last.before)
        x == last.arg
        now == StoredList(storage)
    IN /\ ~last.threw
       /\ storage = ArrayText(FirstTen(<<x>> \o Without(L, x)))
       /\ now[1] = x
       /\ Cardinality({i \in DOMAIN now : SameName(now[i], x)}) = 1
       /\ (L # <<>> /\ SameName(L[1], x)) => Len(now) <= Len(L)
       /\ historyEl = now

C5_Witness ==
  /\ last.op = "add"
  /\ last.arg = Str("A")
  /\ Len(last.before.items) = 2
  /\ last.before.items[1] = Str("a")
  /\ storage = ArrayText(<<Str("A"), Str("k")>>)

PairwiseDistinct(s) ==
  \A i, j \in DOMAIN s : i # j => ~SameName(s[i], s[j])

\* C6: in every state reached from an empty store by add and remove, the
\* persisted history has at most 10 entries, no two equal case-insensitively;
\* after n > 10 pairwise distinct names were added to an empty store it holds
\* exactly the last 10 added, most recent first.
C6_BoundedAndUnique ==
  added.fromEmpty =>
    /\ WellFormedOrAbsent(storage)
    /\ Len(StoredList(storage)) <= 10
    /\ PairwiseDistinct(StoredList(storage))
    /\ (added.onlyAdds /\ Len(added.names) > 10 /\ PairwiseDistinct(added.names)) =>
         StoredList(storage) =
           [i \in 1..10 |-> added.names[Len(added.names) + 1 - i]]

C6_Witness ==
  /\ added.fromEmpty /\ added.onlyAdds
  /\ Len(added.names) = 12
  /\ PairwiseDistinct(added.names)
  /\ last.op = "add" /\ last.arg = Str("m")
  /\ Len(last.before.items) = 10
  /\ Len(StoredList(storage)) = 10
  /\ StoredList(storage)[1] = Str("m")
  /\ StoredList(storage)[10] = Str("c")

\* C7: remove(name) deletes every entry equal to name case-insensitively and
\* keeps the other entries in their order; when none matches, the persisted
\* list is unchanged and no error is raised.
C7_RemoveOnlyMatches ==
  (last.op = "remove" /\ WellFormedOrAbsent(last.before)) =>
    LET L == StoredList(last.before)
        x == last.arg
    IN /\ ~last.threw /\ ~last.alerted
       /\ storage.kind = "array"
       /\ StoredList(storage) = Without(L, x)
       /\ (\A i \in DOMAIN L : ~SameName(L[i], x)) => StoredList(storage) = L
       /\ historyEl = StoredList(storage)

C7_Witness ==
  /\ last.op = "remove"
  /\ last.arg = Str("A")
  /\ last.before = ArrayText(<<Str("a"), Str("A"), Str("b")>>)
  /\ storage = ArrayText(<<Str("b")>>)
  /\ ~last.alerted

(***************************************************************************)
(* The client: fetchWeather, fetchWeatherByCoords and the DOM they write.  *)
(***************************************************************************)
\* fetch() rejected: no response reached the client
NoResponse == ErrorResponse(0, <<>>)

\* response.ok
ok(response) == response.status >= 200 /\ response.status <= 299

\* Reset UI state (the first three statements of both fetch functions)
resetUi(dom) == [dom EXCEPT !.errorHidden = TRUE, !.cards = <<>>, !.loaderHidden = FALSE]

\* displayForecast: one card for every FORECAST_INTERVAL-th sample, appended
\* to the container; i names the lookup whose samples they are
displayForecast(i, forecastList) ==
  [k \in 1..((Len(forecastList) + FORECAST_INTERVAL - 1) \div FORECAST_INTERVAL) |->
     [lookup |-> i, sample |-> forecastList[FORECAST_INTERVAL * (k - 1) + 1]]]

\* getUserFriendlyError: the text put into #error-container
getUserFriendlyError(error) ==
  LET message == LowerMessage(error)
  IN IF includes(message, "404") \/ includes(message, "not found")
     THEN <<"City not found. Please check the spelling and try again.">>
     ELSE IF includes(message, "network") \/ includes(message, "fetch")
     THEN <<"No internet connection. Please check your connection and try again.">>
     ELSE IF includes(message, "timeout")
     THEN <<"Request timed out. Please try again.">>
     ELSE IF error # <<>> THEN error
     ELSE <<"Something went wrong. Please try again.">>

\* The state the client's continuation works on
Client(item, el, dom) == [storage |-> item, el |-> el, dom |-> dom]

\* The try block after `await fetch(...)`: what it throws (<<>>: nothing) and
\* the state it leaves
tryBlock(i, response, c) ==
  IF response = NoResponse
  THEN [error |-> <<"Failed to fetch">>, c |-> c]
  ELSE IF ~ok(response)
  THEN [error |-> IF response.error # <<>> THEN response.error
                  ELSE <<"An unknown error occurred.">>,
        c |-> c]
  ELSE LET currentWeather == response.currentWeather
           forecast == response.forecast
       IN IF currentWeather.kind = "null"
          THEN [error |-> <<"Cannot read properties of null (reading 'name')">>, c |-> c]
          ELSE LET shown == [c EXCEPT !.dom.city = [lookup |-> i, name |-> currentWeather.name]]
               IN IF currentWeather.kind # "current"
                  THEN [error |-> <<"Cannot read properties of undefined (reading 'temp')">>,
                        c |-> shown]
                  ELSE IF forecast.kind = "null"
                  THEN [error |-> <<"Cannot read properties of null (reading 'list')">>,
                        c |-> shown]
                  ELSE IF forecast.kind # "forecast"
                  THEN [error |-> <<"Cannot read properties of undefined (reading 'length')">>,
                        c |-> shown]
                  ELSE LET carded == [shown EXCEPT !.dom.cards =
                                        @ \o displayForecast(i, forecast.list)]
                           saved == saveCityToHistory(currentWeather.name,
                                                      carded.storage, carded.el)
                       IN [error |-> IF ~saved.threw THEN <<>>
                                     ELSE IF parseThrows(getItemOrDefault(carded.storage))
                                     THEN <<"Unexpected token">>
                                     ELSE <<"history.filter is not a function">>,
                           c |-> [carded EXCEPT !.storage = saved.storage,
                                                !.el = saved.el]]

\* Mutant of fetchWeather: the typed text is saved, not the resolved name
fetchWeatherSavesTyped(i, city, response, c) ==
  LET t == tryBlock(i, response, c)
      t2 == IF t.error = <<>> /\ ok(response)
            THEN [t EXCEPT !.c.storage = saveCityToHistory(city, c.storage, c.el).storage]
            ELSE t
      caught == IF t2.error = <<>> THEN t2.c
                ELSE [t2.c EXCEPT !.dom.errorText = getUserFriendlyError(t2.error),
                                  !.dom.errorHidden = FALSE]
  IN [caught EXCEPT !.dom.loaderHidden = TRUE]

\* fetchWeather from the response on: try, catch (the error is shown), finally
fetchWeather(i, city, response, c) ==
  LET t == tryBlock(i, response, c)
      caught == IF t.error = <<>> THEN t.c
                ELSE [t.c EXCEPT !.dom.errorText = getUserFriendlyError(t.error),
                                 !.dom.errorHidden = FALSE]
  IN [caught EXCEPT !.dom.loaderHidden = TRUE]

\* fetchWeatherByCoords from the response on: the catch block shows nothing
fetchWeatherByCoords(i, response, c) ==
  LET t == tryBlock(i, response, c)
  IN [t.c EXCEPT !.dom.loaderHidden = TRUE]

(***************************************************************************)
(* The client against the gateway.                                         *)
(***************************************************************************)
ClientLen == 9

ClientEvents(endpoint) ==
  IF endpoint = "weather"
  THEN {End(200, JsonBody(Current(Str("B")), <<>>)),
        End(404, JsonBody(JObject, <<"404", "city", "not found">>))}
  ELSE {End(200, JsonBody(Forecast(Str("B"), ClientLen), <<>>)),
        End(200, JsonBody(JNull, <<>>))}

\* The responses the gateway can give to a request: the handler runs up to
\* its await, then the two upstream calls settle in either order
GatewayResponses(req) ==
  IF ~Routed(req) THEN {}
  ELSE LET h == Dispatch(req)
       IN IF h.phase = "answered" THEN {h.res[1]}
          ELSE {Settle(Settle(h, "current", c), "forecast", f).res[1] :
                  c \in ClientEvents("weather"), f \in ClientEvents("forecast")}
               \cup
               {Settle(Settle(h, "forecast", f), "current", c).res[1] :
                  c \in ClientEvents("weather"), f \in ClientEvents("forecast")}

TypedCities == {Str("a"), Rep("x", MAX_CITY_LENGTH + 1)}

Lookup(kind, city, req) ==
  [kind |-> kind, city |-> city, req |-> req, st |-> "inflight",
   response |-> NoResponse, before |-> Absent, after |-> Absent,
   concurrent |-> FALSE]

\* The form is submitted with a non-empty trimmed text: fetchWeather(city) up to its await
Search ==
  /\ Len(lookups) < MaxLookups
  /\ \E typed \in TypedCities :
       LET city == Trim(typed)
       IN /\ city # <<>>
          /\ lookups' = Append(lookups, Lookup("name", city, Request(city, Undefined, Undefined)))
  /\ ui' = resetUi(ui)
  /\ UNCHANGED <<srv, storage, historyEl, last, added, nOps>>

\* A history button is clicked: fetchWeather(button.dataset.city) up to its await
SearchFromHistory ==
  /\ Len(lookups) < MaxLookups
  /\ \E k \in DOMAIN historyEl :
       lookups' = Append(lookups,
                         Lookup("name", historyEl[k], Request(historyEl[k], Undefined, Undefined)))
  /\ ui' = resetUi(ui)
  /\ UNCHANGED <<srv, storage, historyEl, last, added, nOps>>

\* The geolocation callback: fetchWeatherByCoords(latitude, longitude) up to its await
Geolocate ==
  /\ Len(lookups) < MaxLookups
  /\ \A k \in DOMAIN lookups : lookups[k].kind # "coords"
  /\ lookups' = Append(lookups,
                       Lookup("coords", <<>>, Request(CoordsSeg, NumParam(51), NumParam(0))))
  /\ ui' = resetUi(ui)
  /\ UNCHANGED <<srv, storage, historyEl, last, added, nOps>>

\* The response of a lookup in flight arrives (or fetch fails) and the rest of
\* its function runs
Complete ==
  \E i \in DOMAIN lookups :
    /\ lookups[i].st = "inflight"
    /\ \E response \in GatewayResponses(lookups[i].req) \cup {NoResponse} :
         LET c == Client(storage, historyEl, ui)
             d == IF lookups[i].kind = "name"
                  THEN fetchWeather(i, lookups[i].city, response, c)
                  ELSE fetchWeatherByCoords(i, response, c)
         IN /\ storage' = d.storage
            /\ historyEl' = d.el
            /\ ui' = d.dom
            /\ lookups' = [lookups EXCEPT ![i].st = "done",
                                          ![i].response = response,
                                          ![i].before = storage,
                                          ![i].after = d.storage,
                                          \* it ends while another lookup is in flight
                                          ![i].concurrent =
                                            \E j \in DOMAIN lookups :
                                              j # i /\ lookups[j].st = "inflight"]
    /\ UNCHANGED <<srv, last, added, nOps>>

ClientItems == {Absent, Filled(1), Blob("garbage", <<>>)}

\* The script has run: the listeners are registered and renderHistory() was called
ClientInit ==
  /\ storage \in ClientItems
  /\ historyEl = renderHistory(storage, <<>>).el
  /\ ui = InitialDom
  /\ lookups = <<>>
  /\ srv = Idle /\ last = NoOp /\ nOps = 0
  /\ added = [names |-> <<>>, fromEmpty |-> FALSE, onlyAdds |-> FALSE]

ClientNext == Search \/ SearchFromHistory \/ Geolocate \/ Complete

SpecClient == ClientInit /\ [][ClientNext]_vars

(***************************************************************************)
(* Claims about the client (checked under SpecClient).                     *)
(***************************************************************************)
\* C10: a client lookup changes the persisted history only when the lookup
\* succeeded, and then exactly by add(currentWeather.name), the resolved name
\* and not the typed text; a lookup that failed leaves the history unchanged.
C10_HistoryFollowsSuccess ==
  \A i \in DOMAIN lookups :
    lookups[i].st = "done" =>
      LET l == lookups[i]
          r == l.response
          succeeded == r.status = 200 /\ r.data
          name == r.currentWeather.name
      IN /\ ~succeeded => l.after = l.before
         /\ l.after # l.before =>
              /\ succeeded
              /\ l.after = ArrayText(FirstTen(<<name>> \o Without(StoredList(l.before), name)))
         /\ (succeeded /\ r.forecast.kind = "forecast" /\ WellFormedOrAbsent(l.before)) =>
              l.after = ArrayText(FirstTen(<<name>> \o Without(StoredList(l.before), name)))

C10_Witness ==
  \E i \in DOMAIN lookups :
    /\ lookups[i].st = "done"
    /\ lookups[i].kind = "name"
    /\ lookups[i].city = Str("a")
    /\ lookups[i].response.status = 200
    /\ lookups[i].response.currentWeather.name = Str("B")
    /\ lookups[i].before = ArrayText(<<Str("a")>>)
    /\ lookups[i].after = ArrayText(<<Str("B"), Str("a")>>)

\* Two lookups overlapped in time: one ended while another was in flight
Overlapped == \E i \in DOMAIN lookups : lookups[i].concurrent

AllDone == \A i \in DOMAIN lookups : lookups[i].st = "done"

\* C12: when two client lookups overlap in time, then once both have
\* completed the forecast container holds the cards of one lookup only, the
\* lookup whose current conditions are displayed, and the loader is never
\* hidden while a lookup is still in flight.
C12_OverlappingLookupsConsistent ==
  Overlapped =>
    /\ (\E i \in DOMAIN lookups : lookups[i].st = "inflight") => ~ui.loaderHidden
    /\ AllDone =>
         \A k \in DOMAIN ui.cards :
           /\ ui.cards[k].lookup = ui.cards[1].lookup
           /\ ui.cards[k].lookup = ui.city.lookup

\* The two halves of C12, each alone
C12_CardsOfOneLookup ==
  (Overlapped /\ AllDone) =>
    \A k \in DOMAIN ui.cards :
      /\ ui.cards[k].lookup = ui.cards[1].lookup
      /\ ui.cards[k].lookup = ui.city.lookup

C12_LoaderShownInFlight ==
  (Overlapped /\ \E i \in DOMAIN lookups : lookups[i].st = "inflight") => ~ui.loaderHidden

\* Without overlap both halves hold: every lookup starts by emptying the
\* container and showing the loader, and nothing else writes them before it ends
SequentialLookupsConsistent ==
  ~Overlapped =>
    /\ (\E i \in DOMAIN lookups : lookups[i].st = "inflight") => ~ui.loaderHidden
    /\ \A k \in DOMAIN ui.cards :
         /\ ui.cards[k].lookup = ui.cards[1].lookup
         /\ ui.cards[k].lookup = ui.city.lookup

====
